---- MODULE Spec2Model ----
(***************************************************************************)
(* A model of src/index.tsx: the App component of the AI historical        *)
(* timeline.  The state is the component's five useState cells, the        *)
(* requests awaiting the generative-AI service, and whether the React      *)
(* tree is still mounted.  Strings the code inspects character by          *)
(* character (the topic, the year labels) are sequences of one-character   *)
(* strings; the response text is a sequence of JSON lexemes.               *)
(***************************************************************************)
EXTENDS Integers, Sequences, FiniteSets, TLC

VARIABLES
    prompt,          \* useState cell: the topic text in the input
    timelineEvents,  \* useState cell: the event list
    isLoading,       \* useState cell: the loading flag
    error,           \* useState cell: the error message, or NoError
    selectedEvent,   \* useState cell: the event shown in the modal, or NULL
    inflight,        \* fetchTimeline calls suspended at the await, each with
                     \* the answer the service is going to give
    mounted,         \* FALSE once a render has thrown and React has removed the tree
    unhandled,       \* TRUE once a fetchTimeline promise has rejected
    lastEvent,       \* history: the last user gesture or callback
    lastResp         \* history: the answer the last resumed fetchTimeline received

vars == <<prompt, timelineEvents, isLoading, error, selectedEvent,
          inflight, mounted, unhandled, lastEvent, lastResp>>

-----------------------------------------------------------------------------
(* Bounds of the model. *)

\* Longest topic typed into the input.
MaxPromptLen == 2

\* Most events in an enumerated response of SortSpec.
MaxEvents == 3

\* Longest year label enumerated by YearSpec.
MaxYearLen == 3

-----------------------------------------------------------------------------
(* Strings. *)

\* The characters String.prototype.trim removes (two of them stand for all).
WhiteSpace == {" ", "\t"}

\* The characters the class \D does not match.
DigitChars == {"0", "1", "2", "3", "4", "5", "6", "7", "8", "9"}

DigitValue(c) ==
    CASE c = "0" -> 0 [] c = "1" -> 1 [] c = "2" -> 2 [] c = "3" -> 3
      [] c = "4" -> 4 [] c = "5" -> 5 [] c = "6" -> 6 [] c = "7" -> 7
      [] c = "8" -> 8 [] c = "9" -> 9

\* All strings over alphabet of length at most n.
StringsUpTo(alphabet, n) == UNION {[1..k -> alphabet] : k \in 0..n}

RECURSIVE TrimStart(_)
TrimStart(s) ==
    IF s # <<>> /\ Head(s) \in WhiteSpace THEN TrimStart(Tail(s)) ELSE s

RECURSIVE TrimEnd(_)
TrimEnd(s) ==
    IF s # <<>> /\ s[Len(s)] \in WhiteSpace
    THEN TrimEnd(SubSeq(s, 1, Len(s) - 1))
    ELSE s

\* A trim that strips nothing.
TrimNothing(s) == s

\* String.prototype.trim
Trim(s) == TrimEnd(TrimStart(s))

\* String.prototype.includes
Includes(s, sub) ==
    \E i \in 1..(Len(s) - Len(sub) + 1) : SubSeq(s, i, i + Len(sub) - 1) = sub

\* s.replace(/\D/g, '')
StripNonDigits(s) == SelectSeq(s, LAMBDA c : c \in DigitChars)

-----------------------------------------------------------------------------
(* Numbers: an integer or NaN. *)

NaN == [nan |-> TRUE, n |-> 0]

Num(k) == [nan |-> FALSE, n |-> k]

RECURSIVE DecimalValue(_)
DecimalValue(d) ==
    IF d = <<>> THEN 0
    ELSE 10 * DecimalValue(SubSeq(d, 1, Len(d) - 1)) + DigitValue(d[Len(d)])

\* parseInt on a string of decimal digits: NaN when there is no digit.
ParseInt(d) == IF d = <<>> THEN NaN ELSE Num(DecimalValue(d))

\* unary minus
Negate(v) == IF v.nan THEN NaN ELSE Num(-v.n)

\* binary minus
Minus(a, b) == IF a.nan \/ b.nan THEN NaN ELSE Num(a.n - b.n)

-----------------------------------------------------------------------------
(* JSON values: what JSON.parse can return for the response texts modelled. *)

\* null, as a JSON value and as the empty selectedEvent
NULL == [kind |-> "null"]

\* The fields the response schema and the TimelineEvent interface require.
RequiredFields == {"year", "title", "description", "details"}

\* An object literal: present holds the keys the literal has.
Object(present, year, title, description, details, link) ==
    [kind |-> "object", present |-> present, year |-> year, title |-> title,
     description |-> description, details |-> details, link |-> link]

Array(items) == [kind |-> "array", items |-> items]

-----------------------------------------------------------------------------
(* The sort comparator and Array.prototype.sort. *)

BC == <<"B", "C">>

\* String(a.year): the label, or "undefined" for an object without the key.
YearString(a) ==
    IF "year" \in a.present THEN a.year
    ELSE <<"u", "n", "d", "e", "f", "i", "n", "e", "d">>

\* The year with the marker BC ignored.
yearNeverNegated(a) == ParseInt(StripNonDigits(YearString(a)))

\* yearA (and yearB, the same expression of b)
yearA(a) ==
    IF Includes(YearString(a), BC)
    THEN Negate(ParseInt(StripNonDigits(YearString(a))))
    ELSE ParseInt(StripNonDigits(YearString(a)))

\* The comparator handed to sort: yearA - yearB.
comparefn(a, b) == Minus(yearA(a), yearA(b))

\* a.year on null throws a TypeError.
ComparatorThrows(a, b) == a = NULL \/ b = NULL

\* ECMA-262 SortCompare on the comparator's result: NaN is taken as +0.
NaNAsZero(v) == IF v.nan THEN 0 ELSE v.n

\* ECMA-262 SortCompare: the comparator called on two elements.
SortCompare(a, b) == NaNAsZero(comparefn(a, b))

Sign(k) == IF k < 0 THEN -1 ELSE IF k > 0 THEN 1 ELSE 0

\* ECMA-262: the comparator is a consistent comparator for the elements.
\* (The comparator's results, yearA - yearB, are computed from a table of
\* the elements' years.)
ConsistentComparator(list) ==
    LET n == Len(list)
        year == [i \in 1..n |-> yearA(list[i])]
        c == [i \in 1..n, j \in 1..n |-> Sign(NaNAsZero(Minus(year[i], year[j])))]
    IN  /\ \A i \in 1..n : c[i, i] = 0
        /\ \A i, j \in 1..n : c[i, j] = -c[j, i]
        /\ \A i, j, k \in 1..n :
              /\ (c[i, j] = 0 /\ c[j, k] = 0) => c[i, k] = 0
              /\ (c[i, j] < 0 /\ c[j, k] < 0) => c[i, k] < 0
              /\ (c[i, j] > 0 /\ c[j, k] > 0) => c[i, k] > 0

\* An insertion that leaves the element where it arrived, at the end.
InsertAtEnd(x, sorted) == Append(sorted, x)

\* x placed after every element of sorted that does not sort after it.
Insert(x, sorted) ==
    LET k == Cardinality({i \in 1..Len(sorted) : SortCompare(sorted[i], x) <= 0})
    IN  SubSeq(sorted, 1, k) \o <<x>> \o SubSeq(sorted, k + 1, Len(sorted))

\* The stable sorted order, which ECMA-262 requires of a consistent comparator.
RECURSIVE StableSort(_)
StableSort(list) ==
    IF list = <<>> THEN <<>>
    ELSE Insert(list[Len(list)], StableSort(SubSeq(list, 1, Len(list) - 1)))

\* Every order of the elements of list.
Reorderings(list) ==
    {[i \in 1..Len(list) |-> list[p[i]]] : p \in Permutations(1..Len(list))}

\* The results events.sort(comparefn) can have: the stable sorted order; an
\* implementation-defined order when the comparator is not consistent.
SortOutcomes(list) ==
    IF Len(list) < 2 THEN {list}
    ELSE IF ConsistentComparator(list) THEN {StableSort(list)}
    ELSE Reorderings(list)

\* Whether events.sort(comparefn) throws: two or more elements are compared,
\* and the comparator reads .year of each.
SortThrows(list) ==
    /\ Len(list) >= 2
    /\ \E i, j \in 1..Len(list) : i # j /\ ComparatorThrows(list[i], list[j])

-----------------------------------------------------------------------------
(* The answer of the service and its text.  A text is a sequence of JSON   *)
(* lexemes: white space, the brackets and comma of an array, a literal     *)
(* (an object or null, taken whole), or a word no JSON text contains.      *)

Ws == [t |-> "ws", v |-> NULL]
LBracket == [t |-> "[", v |-> NULL]
RBracket == [t |-> "]", v |-> NULL]
Comma == [t |-> ",", v |-> NULL]
Word == [t |-> "word", v |-> NULL]
Literal(v) == [t |-> "literal", v |-> v]

\* generateContent rejects
Rejected == [kind |-> "rejected", text |-> <<>>]

\* generateContent resolves with a response whose text is undefined
NoText == [kind |-> "notext", text |-> <<>>]

\* generateContent resolves with a response that has this text
Text(text) == [kind |-> "text", text |-> text]

\* No answer received yet.
NoResponse == [kind |-> "none", text |-> <<>>]

RECURSIVE TextTrimStart(_)
TextTrimStart(text) ==
    IF text # <<>> /\ Head(text) = Ws THEN TextTrimStart(Tail(text)) ELSE text

RECURSIVE TextTrimEnd(_)
TextTrimEnd(text) ==
    IF text # <<>> /\ text[Len(text)] = Ws
    THEN TextTrimEnd(SubSeq(text, 1, Len(text) - 1))
    ELSE text

\* response.text.trim()
TextTrim(text) == TextTrimEnd(TextTrimStart(text))

\* JSON.parse: ok is FALSE where it throws a SyntaxError.  White space is
\* skipped between lexemes; the text is one literal or one array of literals.
JSONParse(text) ==
    LET toks == SelectSeq(text, LAMBDA x : x # Ws)
        n == Len(toks)
        syntaxError == [ok |-> FALSE, value |-> NULL]
    IN  IF n = 1 /\ toks[1].t = "literal" THEN [ok |-> TRUE, value |-> toks[1].v]
        ELSE IF n = 2 /\ toks[1] = LBracket /\ toks[2] = RBracket
             THEN [ok |-> TRUE, value |-> Array(<<>>)]
        ELSE IF /\ n >= 3 /\ n % 2 = 1
                /\ toks[1] = LBracket /\ toks[n] = RBracket
                /\ \A i \in 2..(n - 1) :
                      IF i % 2 = 0 THEN toks[i].t = "literal" ELSE toks[i] = Comma
             THEN [ok |-> TRUE,
                   value |-> Array([i \in 1..((n - 1) \div 2) |-> toks[2 * i].v])]
        ELSE syntaxError

\* The text of an array of the given values.
ArrayText(items) ==
    <<LBracket>>
    \o [i \in 1..(2 * Len(items) - 1) |->
            IF i % 2 = 1 THEN Literal(items[(i + 1) \div 2]) ELSE Comma]
    \o <<RBracket>>

-----------------------------------------------------------------------------
(* The App component. *)

\* The message setError is given in the catch block.
ErrorMessage == "failed to fetch the timeline, try again"

\* The null of the error cell.
NoError == "null"

\* The characters of a topic: white space, and one letter for all others.
PromptChars == WhiteSpace \cup {"k"}

\* The topics the user can type.
Prompts == StringsUpTo(PromptChars, MaxPromptLen)

\* The initial topic: a sentence of words separated by spaces.
DefaultPrompt == <<"k", " ", "k">>

\* Controls that are never disabled.
NeverDisabled == FALSE

\* disabled={isLoading} on the input and on the submit button: the browser
\* dispatches no change and no submit event while it holds.
FormDisabled == isLoading

\* The body of the try block after the await: exc names what it throws, and
\* events is the array handed to sort when nothing is thrown before.
TryBlock(resp) ==
    LET threw(e) == [exc |-> e, events |-> <<>>]
    IN  IF resp.kind = "rejected" THEN threw("rejection")
        ELSE IF resp.kind = "notext" THEN threw("TypeError")
        ELSE LET parsed == JSONParse(TextTrim(resp.text))
             IN  IF ~parsed.ok THEN threw("SyntaxError")
                 ELSE IF parsed.value.kind # "array" THEN threw("TypeError")
                 ELSE IF SortThrows(parsed.value.items) THEN threw("TypeError")
                 ELSE [exc |-> "none", events |-> parsed.value.items]

\* A catch clause for the parser's errors only.
CatchesSyntaxErrorOnly(exc) == exc = "SyntaxError"

\* catch (e: any): whether the catch block runs.
Catches(exc) == exc # "none"

\* Whether rendering App throws: the list is rendered when the component is
\* neither loading nor failed, and the map reads .title of every element.
RenderThrows(loading, err, events) ==
    /\ ~loading
    /\ err = NoError
    /\ \E i \in 1..Len(events) : events[i] = NULL

\* fetchTimeline up to the await, with the list left as it is.
FetchTimelineStartKeepingList(userPrompt, resp) ==
    /\ isLoading' = TRUE
    /\ error' = NoError
    /\ inflight' = Append(inflight, [userPrompt |-> userPrompt, resp |-> resp])
    /\ UNCHANGED <<timelineEvents, prompt, selectedEvent, mounted, unhandled, lastResp>>

\* fetchTimeline up to the await: the three setters, then the request.
FetchTimelineStart(userPrompt, resp) ==
    /\ isLoading' = TRUE
    /\ error' = NoError
    /\ timelineEvents' = <<>>
    /\ inflight' = Append(inflight, [userPrompt |-> userPrompt, resp |-> resp])
    /\ UNCHANGED <<prompt, selectedEvent, mounted, unhandled, lastResp>>

\* fetchTimeline from the await on: try, catch, finally, and the render of
\* the batched updates.  A component no longer mounted ignores the setters.
FetchTimelineResume(i) ==
    LET resp == inflight[i].resp
        try == TryBlock(resp)
    IN  /\ inflight' = SubSeq(inflight, 1, i - 1) \o SubSeq(inflight, i + 1, Len(inflight))
        /\ unhandled' = (unhandled \/ (try.exc # "none" /\ ~Catches(try.exc)))
        /\ lastEvent' = "settle"
        /\ lastResp' = resp
        /\ UNCHANGED <<prompt, selectedEvent>>
        /\ IF mounted
           THEN \E sortedEvents \in SortOutcomes(try.events) :
                  /\ timelineEvents' = IF try.exc = "none" THEN sortedEvents
                                       ELSE timelineEvents
                  /\ error' = IF Catches(try.exc) THEN ErrorMessage ELSE error
                  /\ isLoading' = FALSE
                  /\ mounted' = ~RenderThrows(isLoading', error', timelineEvents')
           ELSE UNCHANGED <<timelineEvents, error, isLoading, mounted>>

\* The answers of the service that Spec draws from.
Event(year, title) == Object(RequiredFields, year, title, "summary", "narrative", "")

Joseon == Event(<<"1", "3", "9", "2">>, "Joseon founded")
Gojoseon == Event(<<"B", "C", " ", "1", "0", "8">>, "Gojoseon falls")
Silla == Event(<<"9", "3", "5">>, "Unified Silla ends")
Undated == Event(<<"u", "n", "k", "n", "o", "w", "n">>, "undated")
Year5 == Event(<<"5">>, "five")
Year3 == Event(<<"3">>, "three")
Untitled ==
    Object(RequiredFields \ {"title"}, <<"1", "3", "9", "2">>, "", "summary", "narrative", "")

Responses ==
    { Rejected,
      NoText,
      Text(<<Word, Ws, Word>>),
      Text(<<LBracket, Literal(Year5), Comma>>),
      Text(<<Literal(Object({}, <<>>, "", "", "", ""))>>),
      Text(<<Ws, LBracket, RBracket, Ws>>),
      Text(ArrayText(<<Joseon, Gojoseon, Silla>>)),
      Text(ArrayText(<<Year5, Undated, Year3>>)),
      Text(ArrayText(<<Untitled>>)),
      Text(ArrayText(<<NULL>>)),
      Text(ArrayText(<<NULL, Year5>>)) }

\* A submit gesture while the controls are disabled: no event is dispatched.
SubmitWhileDisabled ==
    /\ mounted
    /\ FormDisabled
    /\ lastEvent' = "blocked"
    /\ UNCHANGED <<prompt, timelineEvents, isLoading, error, selectedEvent,
                   inflight, mounted, unhandled, lastResp>>

\* handleSubmit, on the submit event of the form.
handleSubmit ==
    /\ mounted
    /\ ~FormDisabled
    /\ lastEvent' = "submit"
    /\ IF Trim(prompt) # <<>>
       THEN \E resp \in Responses : FetchTimelineStart(prompt, resp)
       ELSE UNCHANGED <<prompt, timelineEvents, isLoading, error, selectedEvent,
                        inflight, mounted, unhandled, lastResp>>

\* The service answers one of the pending requests.
Settle == \E i \in 1..Len(inflight) : FetchTimelineResume(i)

\* onChange of the input: setPrompt(e.target.value)
setPrompt ==
    /\ mounted
    /\ ~FormDisabled
    /\ \E value \in Prompts : prompt' = value
    /\ lastEvent' = "change"
    /\ UNCHANGED <<timelineEvents, isLoading, error, selectedEvent,
                   inflight, mounted, unhandled, lastResp>>

\* onClick of a timeline item: setSelectedEvent(event)
SelectEvent ==
    /\ mounted
    /\ ~isLoading
    /\ error = NoError
    /\ \E i \in 1..Len(timelineEvents) : selectedEvent' = timelineEvents[i]
    /\ lastEvent' = "select"
    /\ UNCHANGED <<prompt, timelineEvents, isLoading, error,
                   inflight, mounted, unhandled, lastResp>>

\* onClick of the modal's overlay or close button: setSelectedEvent(null)
CloseModal ==
    /\ mounted
    /\ selectedEvent # NULL
    /\ selectedEvent' = NULL
    /\ lastEvent' = "close"
    /\ UNCHANGED <<prompt, timelineEvents, isLoading, error,
                   inflight, mounted, unhandled, lastResp>>

Init ==
    /\ prompt = DefaultPrompt
    /\ timelineEvents = <<>>
    /\ isLoading = FALSE
    /\ error = NoError
    /\ selectedEvent = NULL
    /\ inflight = <<>>
    /\ mounted = TRUE
    /\ unhandled = FALSE
    /\ lastEvent = "mount"
    /\ lastResp = NoResponse

Next ==
    \/ handleSubmit
    \/ SubmitWhileDisabled
    \/ Settle
    \/ setPrompt
    \/ SelectEvent
    \/ CloseModal

Spec == Init /\ [][Next]_vars

-----------------------------------------------------------------------------
(* The sorter on enumerated inputs: a request is pending whose answer is   *)
(* an array of up to MaxEvents events, and the service answers it.         *)

AD108 == Event(<<"A", "D", " ", "1", "0", "8">>, "anno domini")
Plain108 == Event(<<"1", "0", "8">>, "plain")
Year0 == Event(<<"0">>, "zero")

SortPool == {Gojoseon, AD108, Plain108, Undated, Year0}

\* The state after the first submission, the service about to give resp.
Pending(resp) ==
    /\ prompt = DefaultPrompt
    /\ timelineEvents = <<>>
    /\ isLoading = TRUE
    /\ error = NoError
    /\ selectedEvent = NULL
    /\ inflight = <<[userPrompt |-> DefaultPrompt, resp |-> resp]>>
    /\ mounted = TRUE
    /\ unhandled = FALSE
    /\ lastEvent = "submit"
    /\ lastResp = NoResponse

SortInit == \E list \in StringsUpTo(SortPool, MaxEvents) : Pending(Text(ArrayText(list)))

SortNext == Settle

SortSpec == SortInit /\ [][SortNext]_vars

(* The comparator on enumerated year labels: the answer is a pair of       *)
(* events, the second with any label of up to MaxYearLen characters, the   *)
(* first with that label freed of the marker BC.                           *)

YearChars == {"B", "C", "A", "D", "0", "1", " "}

\* s with the marker removed, until none is left.
RECURSIVE WithoutBC(_)
WithoutBC(s) ==
    IF ~Includes(s, BC) THEN s
    ELSE LET i == CHOOSE k \in 1..(Len(s) - 1) :
                     /\ SubSeq(s, k, k + 1) = BC
                     /\ \A m \in 1..(k - 1) : SubSeq(s, m, m + 1) # BC
         IN  WithoutBC(SubSeq(s, 1, i - 1) \o SubSeq(s, i + 2, Len(s)))

\* s with every marker BC replaced by AD.
RECURSIVE WithAD(_)
WithAD(s) ==
    IF ~Includes(s, BC) THEN s
    ELSE LET i == CHOOSE k \in 1..(Len(s) - 1) :
                     /\ SubSeq(s, k, k + 1) = BC
                     /\ \A m \in 1..(k - 1) : SubSeq(s, m, m + 1) # BC
         IN  WithAD(SubSeq(s, 1, i - 1) \o <<"A", "D">> \o SubSeq(s, i + 2, Len(s)))

YearInit ==
    \E s \in StringsUpTo(YearChars, MaxYearLen) :
        \E other \in {WithoutBC(s), WithAD(s)} :
            Pending(Text(ArrayText(<<Event(other, "other"), Event(s, "labelled")>>)))

YearNext == Settle

YearSpec == YearInit /\ [][YearNext]_vars

-----------------------------------------------------------------------------
(* Properties. *)

\* The array the last answer decodes to: the sorter's input.
Decoded == JSONParse(TextTrim(lastResp.text)).value.items

\* The last step resumed a fetchTimeline whose try block completed.
Succeeded == lastEvent = "settle" /\ TryBlock(lastResp).exc = "none"

\* The last step resumed a fetchTimeline whose try block threw.
Failed == lastEvent = "settle" /\ TryBlock(lastResp).exc # "none"

\* C1: at most one request is in flight, and one is in flight exactly while
\* the loading flag is set, so no submission starts a second fetchTimeline.
C1_OneRequestInFlight ==
    /\ Len(inflight) <= 1
    /\ isLoading <=> (Len(inflight) = 1)

\* A submit gesture arrived while a request was pending, and was dropped.
C1_Witness == lastEvent = "blocked" /\ isLoading /\ Len(inflight) = 1

\* C2: every request cycle that fails (the call rejects, or the text does not
\* decode) ends with the generic error message set, the event list empty, the
\* loading flag false and no exception escaped from fetchTimeline.
C2_FailureCollapses ==
    Failed =>
        /\ error = ErrorMessage
        /\ timelineEvents = <<>>
        /\ ~isLoading
        /\ ~unhandled
        /\ mounted

\* The answer with the text "not json" has been received.
C2_Witness ==
    /\ lastEvent = "settle"
    /\ lastResp = Text(<<Word, Ws, Word>>)
    /\ error = ErrorMessage

\* A topic of white space only, or empty.
IsBlank(s) == \A i \in 1..Len(s) : s[i] \in WhiteSpace

\* C3: a submission of an empty or white-space-only topic starts no request
\* and leaves event list, loading flag, error, selected event and topic as
\* they were.
C3_BlankSubmitChangesNothing ==
    [][(lastEvent' = "submit" /\ IsBlank(prompt)) =>
          UNCHANGED <<prompt, timelineEvents, isLoading, error, selectedEvent,
                      inflight, mounted, unhandled>>]_vars

\* A white-space topic was submitted over a shown timeline and an open modal.
C3_Witness ==
    /\ lastEvent = "submit"
    /\ IsBlank(prompt) /\ prompt # <<>>
    /\ timelineEvents # <<>>
    /\ selectedEvent # NULL
    /\ inflight = <<>>

\* The effective year as the specification defines it: the digits of the
\* label as a number, zero when there is none, negated when BC occurs.
ClaimedYear(e) ==
    LET magnitude == DecimalValue(StripNonDigits(e.year))
    IN  IF Includes(e.year, BC) THEN -magnitude ELSE magnitude

\* out is input in ascending order of key, equal keys in input order.
IsStableOrder(input, out, key(_)) ==
    /\ Len(out) = Len(input)
    /\ \E p \in Permutations(1..Len(input)) :
          /\ \A i \in 1..Len(out) : out[i] = input[p[i]]
          /\ \A i, j \in 1..Len(out) :
                i < j => \/ key(out[i]) < key(out[j])
                         \/ key(out[i]) = key(out[j]) /\ p[i] < p[j]

\* C4: the sorter's output is in ascending order of effective year, events of
\* equal effective year in their input order.
C4_SortedAscendingStable ==
    Succeeded => IsStableOrder(Decoded, timelineEvents, ClaimedYear)

\* e with a label without digits replaced by the label "0".
AsYearZero(e) ==
    IF StripNonDigits(e.year) = <<>> THEN [e EXCEPT !.year = <<"0">>] ELSE e

\* C5: a label without digits has the effective value 0, and its event is
\* placed as an event of year "0" would be; the sorter does not throw.
C5_NoDigitsSortsAsZero ==
    lastEvent = "settle" =>
        /\ TryBlock(lastResp).exc = "none"
        /\ \A i \in 1..Len(Decoded) :
              StripNonDigits(Decoded[i].year) = <<>> => yearA(Decoded[i]) = Num(0)
        /\ [i \in 1..Len(timelineEvents) |-> AsYearZero(timelineEvents[i])]
              \in SortOutcomes([i \in 1..Len(Decoded) |-> AsYearZero(Decoded[i])])

\* a < b, for numbers: false when either is NaN.
Less(a, b) == ~a.nan /\ ~b.nan /\ a.n < b.n

\* The label has a digit other than 0.
HasNonZeroDigit(s) == \E i \in 1..Len(s) : s[i] \in DigitChars \ {"0"}

\* C6 as stated: a label containing BC has a strictly smaller effective value
\* than the same label without the marker, and its event sorts before.
C6_BCStrictlySmaller ==
    (Succeeded /\ Includes(Decoded[2].year, BC)) =>
        /\ Less(yearA(Decoded[2]), yearA(Decoded[1]))
        /\ timelineEvents = <<Decoded[2], Decoded[1]>>

\* C6, amended: the value of a label containing BC is the negation of the
\* value of the same label freed of the marker; it is strictly smaller, and
\* the event sorts before the other, exactly when the label has a digit other
\* than 0, and otherwise the two compare equal and keep their input order.
C6_BCNegates ==
    (Succeeded /\ Includes(Decoded[2].year, BC)) =>
        /\ yearA(Decoded[2]) = Negate(yearA(Decoded[1]))
        /\ Less(yearA(Decoded[2]), yearA(Decoded[1])) <=> HasNonZeroDigit(Decoded[2].year)
        /\ timelineEvents = IF HasNonZeroDigit(Decoded[2].year)
                            THEN <<Decoded[2], Decoded[1]>>
                            ELSE Decoded

\* A BC label with a non-zero year was sorted before its unmarked twin.
C6_Witness ==
    /\ Succeeded
    /\ Includes(Decoded[2].year, BC)
    /\ HasNonZeroDigit(Decoded[2].year)
    /\ timelineEvents = <<Decoded[2], Decoded[1]>>
    /\ timelineEvents # Decoded

\* Every required field of every event of the list is there and not empty.
Complete(e) ==
    /\ e.kind = "object"
    /\ RequiredFields \subseteq e.present
    /\ e.year # <<>> /\ e.title # "" /\ e.description # "" /\ e.details # ""

\* C7: every event of the rendered list has a non-empty year, title,
\* description and details.
C7_RenderedEventsComplete ==
    mounted => \A i \in 1..Len(timelineEvents) : Complete(timelineEvents[i])

\* C8: once every request cycle has ended, in success or in failure, the
\* application is interactive: a submission is accepted.
C8_StaysInteractive ==
    (lastResp # NoResponse /\ inflight = <<>>) => (mounted /\ ~FormDisabled)

\* The two sequences hold the same events, each as often.
SameEvents(a, b) ==
    /\ Len(a) = Len(b)
    /\ \A i \in 1..Len(a) :
          Cardinality({j \in 1..Len(a) : a[j] = a[i]})
              = Cardinality({j \in 1..Len(b) : b[j] = a[i]})

\* No two events of the list compare equal.
NoTies(list) ==
    \A i, j \in 1..Len(list) : i # j => SortCompare(list[i], list[j]) # 0

C10_ListIsSnapshotOfCycle ==
    IF isLoading THEN timelineEvents = <<>> /\ error = NoError
    ELSE IF error # NoError \/ lastResp = NoResponse THEN timelineEvents = <<>>
    ELSE timelineEvents \in SortOutcomes(Decoded)

\* A request is pending after an earlier answer filled the list.
C10_Witness ==
    /\ isLoading
    /\ lastResp # NoResponse
    /\ TryBlock(lastResp).exc = "none"
    /\ Decoded # <<>>
    /\ timelineEvents = <<>>

====
